---- MODULE Spec2Model ----
(***************************************************************************)
(* TD Sequential engine (src/demark_engine.py, class DeMarkEngine).        *)
(*                                                                         *)
(* A data frame is a function from the row labels 0..n-1 to rows; a row    *)
(* is a record whose fields are the frame's columns.  The caller's frame   *)
(* carries the columns DATETIME, HIGH, LOW, CLOSE (OPEN and VOLUME are     *)
(* never read by the engine and are left out).  Missing numeric values     *)
(* (numpy's nan) are the value NaN, and every comparison with NaN is       *)
(* false, as in numpy.                                                     *)
(***************************************************************************)
EXTENDS Integers, Sequences, FiniteSets, TLC

VARIABLES
    pc,      \* "build": the caller assembles the series; "closed": the
             \* series is complete; "constructed": DeMarkEngine(df) was
             \* built; "done": run() has returned
    input,   \* the frame the caller passes to DeMarkEngine(df)
    shape,   \* the price regime the caller's series is currently in
    turned,  \* the series has already changed regime once
    df,      \* self.df
    runs,    \* how many times run() was called on the engine
    scanned, \* main.run: how many rows of the master file the loop has taken
    results  \* main.run: results_data

vars == <<pc, input, shape, turned, df, runs, scanned, results>>

-----------------------------------------------------------------------------
(* Bounds of the model *)

MaxLen == 24        \* longest series
BasePrice == 100    \* close of bar 0
WideOff == 3        \* high - close and close - low of a wide bar
MaxRuns == 2        \* calls of run() on one engine
MaxSymbols == 2     \* rows of the master file

(* Constants of the program *)

NaN == -1           \* np.nan; prices, counts, ages and labels are >= 0
TD9_WINDOW == 4
TD13_WINDOW == 8
DemarkerLength == 14

-----------------------------------------------------------------------------
(* Frames *)

NRows(d) == Cardinality(DOMAIN d)

EmptyFrame == [i \in {} |-> 0]

Columns(d) == IF DOMAIN d = {} THEN {} ELSE DOMAIN d[CHOOSE i \in DOMAIN d : TRUE]

Max(a, b) == IF a >= b THEN a ELSE b

\* comparisons of numpy floats: false as soon as one side is nan
NumEq(a, b) == a # NaN /\ b # NaN /\ a = b
NumLt(a, b) == a # NaN /\ b # NaN /\ a < b
NumLe(a, b) == a # NaN /\ b # NaN /\ a <= b
NumGt(a, b) == a # NaN /\ b # NaN /\ a > b

\* df[col] = values (whole-column assignment; adds or replaces the column)
SetCol(d, col, f) == [i \in DOMAIN d |-> (col :> f[i]) @@ d[i]]

\* df.loc[i, col] = v; a label that is not in the index enlarges the frame
LocSet(d, i, col, v) ==
    IF i \in DOMAIN d
    THEN [d EXCEPT ![i] = (col :> v) @@ @]
    ELSE (i :> [c \in Columns(d) \cup {col} |-> IF c = col THEN v ELSE NaN]) @@ d

\* a shift in the wrong direction: the value k rows below
ShiftAhead(d, col, k, i) == IF i + k \in DOMAIN d THEN d[i + k][col] ELSE NaN

\* series.shift(k): the value k rows above, nan for the first k rows
Shift(d, col, k, i) == IF i - k \in DOMAIN d THEN d[i - k][col] ELSE NaN

-----------------------------------------------------------------------------
(* The caller's series *)

Shapes == [d : {-1, 0, 1}, wide : BOOLEAN]

NewBar(d, sh, ts) ==
    LET c   == IF NRows(d) = 0 THEN BasePrice ELSE d[NRows(d) - 1].CLOSE + sh.d
        off == IF sh.wide THEN WideOff ELSE 0
    IN  [DATETIME |-> ts, HIGH |-> c + off, LOW |-> c - off, CLOSE |-> c]

AppendRow(d, r) == (NRows(d) :> r) @@ d

NextStamp(d) == 2 * NRows(d)

-----------------------------------------------------------------------------
(* __init__: copy, sort by DATETIME, reset the index *)

\* position of row i in the sorted frame; rows with equal keys keep their
\* order (stable) or swap it: sort_values uses quicksort, which is not stable
Rank(d, i, stable) ==
    Cardinality({j \in DOMAIN d :
        \/ d[j].DATETIME < d[i].DATETIME
        \/ /\ d[j].DATETIME = d[i].DATETIME
           /\ IF stable THEN j < i ELSE j > i})

\* a sort that also drops the rows repeating an earlier row's timestamp
SortValuesDropDuplicates(d, stable) ==
    LET keep == {i \in DOMAIN d :
                    \A j \in DOMAIN d : j < i => d[j].DATETIME # d[i].DATETIME}
        rk(i) == Cardinality({j \in keep : d[j].DATETIME < d[i].DATETIME})
    IN  [k \in 0..(Cardinality(keep) - 1) |-> d[CHOOSE i \in keep : rk(i) = k]]

SortValues(d, stable) ==
    [k \in DOMAIN d |-> d[CHOOSE i \in DOMAIN d : Rank(d, i, stable) = k]]

-----------------------------------------------------------------------------
(* 1. compute_demarker *)

\* up = max(HIGH - HIGH.shift(1), 0); nan on the first row
UpMove(d, i) ==
    IF Shift(d, "HIGH", 1, i) = NaN THEN NaN
    ELSE Max(d[i].HIGH - Shift(d, "HIGH", 1, i), 0)

\* down = max(LOW.shift(1) - LOW, 0); nan on the first row
DownMove(d, i) ==
    IF Shift(d, "LOW", 1, i) = NaN THEN NaN
    ELSE Max(Shift(d, "LOW", 1, i) - d[i].LOW, 0)

RECURSIVE SumOver(_, _, _)
SumOver(f, lo, hi) == IF lo > hi THEN 0 ELSE f[hi] + SumOver(f, lo, hi - 1)

\* rolling(length).mean() at row i, in units of 1/length (the window's sum):
\* nan until the window holds length values, none of them nan
RollingMean(f, i, length) ==
    IF i - length + 1 < 0 \/ \E j \in (i - length + 1)..i : f[j] = NaN
    THEN NaN
    ELSE SumOver(f, i - length + 1, i)

\* a quotient a / b of floats as the pair <<a, b>>; 0/0 and nan operands give nan
NaNQuot == <<0, 0>>
\* a quotient that reads 0 when the denominator is 0
QuotZeroFilled(a, b) ==
    IF a = NaN \/ b = NaN THEN NaNQuot
    ELSE IF b = 0 THEN <<0, 1>> ELSE <<a, b>>

Quot(a, b) == IF a = NaN \/ b = NaN \/ b = 0 THEN NaNQuot ELSE <<a, b>>

ComputeDemarker(d, length) ==
    LET up       == [i \in DOMAIN d |-> UpMove(d, i)]
        down     == [i \in DOMAIN d |-> DownMove(d, i)]
        dem_up   == [i \in DOMAIN d |-> RollingMean(up, i, length)]
        dem_down == [i \in DOMAIN d |-> RollingMean(down, i, length)]
    IN  SetCol(d, "DEMARKER",
            [i \in DOMAIN d |->
                IF dem_up[i] = NaN \/ dem_down[i] = NaN THEN NaNQuot
                ELSE Quot(dem_up[i], dem_up[i] + dem_down[i])])

-----------------------------------------------------------------------------
(* 2. compute_setups *)

\* a buy flip that also accepts an equal close
BullFlipOrEqual(d, i) == d[i].CLOSE <= d[i - 4].CLOSE

BullFlip(d, i) == d[i].CLOSE < d[i - 4].CLOSE

\* a sell flip measured against the previous bar instead of four bars back
BearFlipPreviousBar(d, i) == d[i].CLOSE > d[i - 1].CLOSE

BearFlip(d, i) == d[i].CLOSE > d[i - 4].CLOSE

\* one pass of the loop body for bar i
SetupStep(d, i) ==
    LET d1 == IF BullFlip(d, i)
              THEN LocSet(d, i, "BULL_SETUP", d[i - 1].BULL_SETUP + 1)
              ELSE LocSet(d, i, "BULL_SETUP", 0)
    IN  IF BearFlip(d1, i)
        THEN LocSet(d1, i, "BEAR_SETUP", d1[i - 1].BEAR_SETUP + 1)
        ELSE LocSet(d1, i, "BEAR_SETUP", 0)

RECURSIVE SetupLoop(_, _, _)
SetupLoop(d, i, n) == IF i >= n THEN d ELSE SetupLoop(SetupStep(d, i), i + 1, n)

\* a perfection test that stays on for the counts above 9
PerfectBuyFromNine(d, i) ==
    /\ d[i].BULL_SETUP >= 9
    /\ \/ NumGt(Shift(d, "HIGH", 8, i), Shift(d, "HIGH", 6, i))
       \/ NumGt(Shift(d, "HIGH", 8, i), Shift(d, "HIGH", 7, i))

PerfectBuy(d, i) ==
    /\ d[i].BULL_SETUP = 9
    /\ \/ NumGt(Shift(d, "HIGH", 8, i), Shift(d, "HIGH", 6, i))
       \/ NumGt(Shift(d, "HIGH", 8, i), Shift(d, "HIGH", 7, i))

PerfectSell(d, i) ==
    /\ d[i].BEAR_SETUP = 9
    /\ \/ NumLt(Shift(d, "LOW", 8, i), Shift(d, "LOW", 6, i))
       \/ NumLt(Shift(d, "LOW", 8, i), Shift(d, "LOW", 7, i))

ComputeSetups(d) ==
    LET d0 == SetCol(SetCol(d, "BULL_SETUP", [i \in DOMAIN d |-> 0]),
                     "BEAR_SETUP", [i \in DOMAIN d |-> 0])
        d1 == SetupLoop(d0, 4, NRows(d0))
        d2 == SetCol(d1, "PERFECT_BUY", [i \in DOMAIN d1 |-> PerfectBuy(d1, i)])
        d3 == SetCol(d2, "PERFECT_SELL", [i \in DOMAIN d2 |-> PerfectSell(d2, i)])
        d4 == SetCol(d3, "TD9_BUY", [i \in DOMAIN d3 |-> d3[i].BULL_SETUP = 9])
    IN  SetCol(d4, "TD9_SELL", [i \in DOMAIN d4 |-> d4[i].BEAR_SETUP = 9])

-----------------------------------------------------------------------------
(* 3. compute_countdown *)

\* a reset only on the bar where the Setup count is exactly 9
BullRecycleOnNine(d, i) == d[i].BULL_SETUP = 9

BullRecycle(d, i) == d[i].BULL_SETUP >= 9

BearRecycle(d, i) == d[i].BEAR_SETUP >= 9

BullCount(d, i) == d[i].CLOSE <= d[i - 2].LOW

BearCount(d, i) == d[i].CLOSE >= d[i - 2].HIGH

\* the running counters after the loop body for bar i
BullCdStep(d, i, bull_cd) ==
    LET c == IF BullRecycle(d, i) THEN 0 ELSE bull_cd
    IN  IF BullCount(d, i) THEN c + 1 ELSE c

BearCdStep(d, i, bear_cd) ==
    LET c == IF BearRecycle(d, i) THEN 0 ELSE bear_cd
    IN  IF BearCount(d, i) THEN c + 1 ELSE c

RECURSIVE CountdownLoop(_, _, _, _, _)
CountdownLoop(d, i, n, bull_cd, bear_cd) ==
    IF i >= n THEN d
    ELSE LET b == BullCdStep(d, i, bull_cd)
             s == BearCdStep(d, i, bear_cd)
         IN  CountdownLoop(LocSet(LocSet(d, i, "BULL_CD", b), i, "BEAR_CD", s),
                           i + 1, n, b, s)

\* a countdown whose running counters are kept from the previous run
\* instead of being set to 0
ComputeCountdownCarried(d) ==
    LET n  == NRows(d)
        b0 == IF "BULL_CD" \in Columns(d) THEN d[n - 1].BULL_CD ELSE 0
        s0 == IF "BEAR_CD" \in Columns(d) THEN d[n - 1].BEAR_CD ELSE 0
        d0 == SetCol(SetCol(d, "BULL_CD", [i \in DOMAIN d |-> 0]),
                     "BEAR_CD", [i \in DOMAIN d |-> 0])
        d1 == CountdownLoop(d0, 2, NRows(d0), b0, s0)
        d2 == SetCol(d1, "TD13_BUY", [i \in DOMAIN d1 |-> d1[i].BULL_CD >= 13])
    IN  SetCol(d2, "TD13_SELL", [i \in DOMAIN d2 |-> d2[i].BEAR_CD >= 13])

ComputeCountdown(d) ==
    LET d0 == SetCol(SetCol(d, "BULL_CD", [i \in DOMAIN d |-> 0]),
                     "BEAR_CD", [i \in DOMAIN d |-> 0])
        d1 == CountdownLoop(d0, 2, NRows(d0), 0, 0)
        d2 == SetCol(d1, "TD13_BUY", [i \in DOMAIN d1 |-> d1[i].BULL_CD >= 13])
    IN  SetCol(d2, "TD13_SELL", [i \in DOMAIN d2 |-> d2[i].BEAR_CD >= 13])

-----------------------------------------------------------------------------
(* 4. compute_signal_aging *)

\* np.where(flag, index, nan)
SignalBar(d, flag, i) == IF d[i][flag] THEN i ELSE NaN

\* a fill that carries a value over one missing row only
FfillOneRow(f, i) ==
    IF f[i] # NaN THEN f[i]
    ELSE IF i - 1 \in DOMAIN f THEN f[i - 1] ELSE NaN

\* series.ffill(): the last value that is not nan, at or above row i
RECURSIVE Ffill(_, _)
Ffill(f, i) ==
    IF f[i] # NaN THEN f[i]
    ELSE IF i - 1 \in DOMAIN f THEN Ffill(f, i - 1) ELSE NaN

\* index - bar
Age(i, bar) == IF bar = NaN THEN NaN ELSE i - bar

\* a band whose upper edge is exclusive
ClassifyExclusive(age, window) ==
    IF NumEq(age, 0) THEN "Fresh"
    ELSE IF NumLt(age, window) THEN "Active"
    ELSE "Expired"

Classify(age, window) ==
    IF NumEq(age, 0) THEN "Fresh"
    ELSE IF NumLe(age, window) THEN "Active"
    ELSE "Expired"

\* the _BAR, _AGE and _STATUS columns of one stream
AgeStream(d, flag, barCol, ageCol, statusCol, window) ==
    LET raw == [i \in DOMAIN d |-> SignalBar(d, flag, i)]
        d1  == SetCol(d, barCol, [i \in DOMAIN d |-> Ffill(raw, i)])
        d2  == SetCol(d1, ageCol, [i \in DOMAIN d1 |-> Age(i, d1[i][barCol])])
    IN  SetCol(d2, statusCol,
               [i \in DOMAIN d2 |-> Classify(d2[i][ageCol], window)])

ComputeSignalAging(d) ==
    LET d1 == AgeStream(d, "TD9_BUY", "TD9_BUY_BAR", "TD9_BUY_AGE",
                        "TD9_BUY_STATUS", TD9_WINDOW)
        d2 == AgeStream(d1, "TD9_SELL", "TD9_SELL_BAR", "TD9_SELL_AGE",
                        "TD9_SELL_STATUS", TD9_WINDOW)
        d3 == AgeStream(d2, "TD13_BUY", "TD13_BUY_BAR", "TD13_BUY_AGE",
                        "TD13_BUY_STATUS", TD13_WINDOW)
    IN  AgeStream(d3, "TD13_SELL", "TD13_SELL_BAR", "TD13_SELL_AGE",
                  "TD13_SELL_STATUS", TD13_WINDOW)

-----------------------------------------------------------------------------
(* 5. run *)

CopyCol(d, to, from) == SetCol(d, to, [i \in DOMAIN d |-> d[i][from]])

RECURSIVE CopyCols(_, _)
CopyCols(d, names) ==
    IF names = {} THEN d
    ELSE LET p == CHOOSE q \in names : TRUE
         IN  CopyCols(CopyCol(d, p[1], p[2]), names \ {p})

LowercaseMapping ==
    { <<"bull_setup", "BULL_SETUP">>, <<"bear_setup", "BEAR_SETUP">>,
      <<"perfect_buy", "PERFECT_BUY">>, <<"perfect_sell", "PERFECT_SELL">>,
      <<"td9_buy_status", "TD9_BUY_STATUS">>,
      <<"td9_sell_status", "TD9_SELL_STATUS">>,
      <<"td13_buy_status", "TD13_BUY_STATUS">>,
      <<"td13_sell_status", "TD13_SELL_STATUS">>,
      <<"td9_buy_age", "TD9_BUY_AGE">>, <<"td9_sell_age", "TD9_SELL_AGE">>,
      <<"td13_buy_age", "TD13_BUY_AGE">>, <<"td13_sell_age", "TD13_SELL_AGE">> }

RunEngine(d) ==
    CopyCols(
        ComputeSignalAging(
            ComputeCountdown(
                ComputeSetups(
                    ComputeDemarker(d, DemarkerLength)))),
        LowercaseMapping)

-----------------------------------------------------------------------------

Init ==
    /\ pc = "build"
    /\ input = EmptyFrame
    /\ shape \in Shapes
    /\ turned = FALSE
    /\ df = EmptyFrame
    /\ runs = 0
    /\ scanned = 0
    /\ results = << >>

\* the next bar of the current regime, stamped after the last one
AddBar ==
    /\ pc = "build"
    /\ NRows(input) < MaxLen
    /\ input' = AppendRow(input, NewBar(input, shape, NextStamp(input)))
    /\ UNCHANGED <<pc, shape, turned, df, runs, scanned, results>>

\* the series changes regime (once): the next bar has another shape
Turn ==
    /\ pc = "build"
    /\ ~turned
    /\ NRows(input) >= 1
    /\ NRows(input) < MaxLen
    /\ \E s \in Shapes \ {shape} :
        /\ shape' = s
        /\ input' = AppendRow(input, NewBar(input, s, NextStamp(input)))
    /\ turned' = TRUE
    /\ UNCHANGED <<pc, df, runs, scanned, results>>

\* a last bar whose timestamp repeats the previous bar's, or precedes it
\* (in a series that has not changed regime)
AddStaleBar ==
    /\ pc = "build"
    /\ ~turned
    /\ NRows(input) >= 1
    /\ NRows(input) < MaxLen
    /\ \E back \in {0, 1} :
        input' = AppendRow(input,
                    NewBar(input, shape, input[NRows(input) - 1].DATETIME - back))
    /\ pc' = "closed"
    /\ UNCHANGED <<shape, turned, df, runs, scanned, results>>

\* DeMarkEngine(df)
Construct ==
    /\ pc \in {"build", "closed"}
    /\ \E stable \in BOOLEAN : df' = SortValues(input, stable)
    /\ pc' = "constructed"
    /\ runs' = 0
    /\ UNCHANGED <<input, shape, turned, scanned, results>>

\* engine.run(); it may be called again on the same object
Run ==
    /\ pc \in {"constructed", "done"}
    /\ runs < MaxRuns
    /\ df' = RunEngine(df)
    /\ pc' = "done"
    /\ runs' = runs + 1
    /\ UNCHANGED <<input, shape, turned, scanned, results>>

Next == AddBar \/ Turn \/ AddStaleBar \/ Construct \/ Run

Spec == Init /\ [][Next]_vars

-----------------------------------------------------------------------------
(* The scanner: the loop of main.run over the master file *)

ScoreScale == 6     \* the "/6" of the message line

\* the last row of an engine's frame, as far as the scanner reads it: the
\* ages of the four streams and the statuses compute_signal_aging gives them
LastRow(a9b, a9s, a13b, a13s) ==
    [ TD9_BUY_STATUS   |-> Classify(a9b, TD9_WINDOW),
      TD9_SELL_STATUS  |-> Classify(a9s, TD9_WINDOW),
      TD13_BUY_STATUS  |-> Classify(a13b, TD13_WINDOW),
      TD13_SELL_STATUS |-> Classify(a13s, TD13_WINDOW),
      TD13_BUY_AGE     |-> a13b,
      TD13_SELL_AGE    |-> a13s ]

\* ages on the last bar: no event yet (Expired) or an event as far back as
\* the window reaches (Active); for the hourly TD13 streams also an event on
\* the bar (Fresh) and 3 and 4 bars back, the two sides of the score's
\* "age <= 3" test
TD9Ages == {NaN, 4}

DailyTD13Ages == {NaN, 8}

HourlyTD13Ages == {NaN, 0, 3, 4}

DailyRows ==
    {LastRow(a, b, c, e) : a \in TD9Ages, b \in TD9Ages,
                           c \in DailyTD13Ages, e \in DailyTD13Ages}

HourlyRows ==
    {LastRow(a, b, c, e) : a \in TD9Ages, b \in TD9Ages,
                           c \in HourlyTD13Ages, e \in HourlyTD13Ages}

\* status in ["Fresh", "Active"]
Live(status) == status \in {"Fresh", "Active"}

Bias(bullish_bias) == IF bullish_bias THEN "Bullish" ELSE "Bearish"

Leadership(ratio_strong) == IF ratio_strong THEN "Leader" ELSE "Lagging"

Classification(last_daily, last_hour, bullish_bias) ==
    IF Live(last_daily.TD13_SELL_STATUS) /\ Live(last_hour.TD13_SELL_STATUS)
    THEN "Strong Sell"
    ELSE IF bullish_bias /\ Live(last_hour.TD13_BUY_STATUS)
    THEN "Fresh Buy"
    ELSE IF Live(last_daily.TD9_BUY_STATUS) THEN "Early Buy Exhaustion"
    ELSE IF Live(last_daily.TD9_SELL_STATUS) THEN "Early Sell Exhaustion"
    ELSE IF Live(last_hour.TD9_BUY_STATUS) THEN "Intraday Buy Exhaustion"
    ELSE IF Live(last_hour.TD9_SELL_STATUS) THEN "Intraday Sell Exhaustion"
    ELSE "Neutral"

Points(cond, n) == IF cond THEN n ELSE 0

Confidence(last_daily, last_hour, bullish_bias, ratio_strong) ==
      Points(Live(last_daily.TD13_BUY_STATUS)
                \/ Live(last_daily.TD13_SELL_STATUS), 2)
    + Points(Live(last_hour.TD13_BUY_STATUS)
                \/ Live(last_hour.TD13_SELL_STATUS), 1)
    + Points(ratio_strong, 1)
    + Points(NumLe(last_hour.TD13_BUY_AGE, 3)
                \/ NumLe(last_hour.TD13_SELL_AGE, 3), 1)
    + Points(bullish_bias /\ Live(last_hour.TD13_BUY_STATUS), 1)

\* a symbol that passes the Neutral filter only
KeptAnyLeadership(classification, leadership) == classification # "Neutral"

\* the two "continue" filters: skip Neutral, keep leaders only
Kept(classification, leadership) ==
    classification # "Neutral" /\ leadership = "Leader"

\* the line of the alert message for one stored result
MessageLine(row) ==
    [Symbol |-> row.Symbol, Bias |-> row.Bias,
     Score |-> row.Confidence, OutOf |-> ScoreScale]

InitScan ==
    /\ pc = "build"
    /\ input = EmptyFrame
    /\ shape = [d |-> 0, wide |-> FALSE]
    /\ turned = FALSE
    /\ df = EmptyFrame
    /\ runs = 0
    /\ scanned = 0
    /\ results = << >>

\* one pass of the loop body: fetch, run both engines, classify, score, store
ScanSymbol ==
    /\ scanned < MaxSymbols
    /\ scanned' = scanned + 1
    /\ \E fetched, bullish_bias, ratio_strong \in BOOLEAN :
       \E last_daily \in DailyRows, last_hour \in HourlyRows :
        LET classification == Classification(last_daily, last_hour, bullish_bias)
            leadership     == Leadership(ratio_strong)
        IN  results' =
                IF fetched /\ Kept(classification, leadership)
                THEN Append(results,
                        [ Symbol         |-> scanned,
                          Classification |-> classification,
                          Bias           |-> Bias(bullish_bias),
                          Leadership     |-> leadership,
                          Confidence     |-> Confidence(last_daily, last_hour,
                                                bullish_bias, ratio_strong) ])
                ELSE results
    /\ UNCHANGED <<pc, input, shape, turned, df, runs>>

NextScan == ScanSymbol

SpecScan == InitScan /\ [][NextScan]_vars

-----------------------------------------------------------------------------
(* Properties *)

Done == pc = "done"

Bars == DOMAIN df

Statuses == {"Fresh", "Active", "Expired"}

\* the caller's timestamps are strictly increasing
StrictlyAscending(d) ==
    \A i, j \in DOMAIN d : i < j => d[i].DATETIME < d[j].DATETIME

\* C1: after run, on every bar at most one of the two Setup counts is
\* positive: bull_setup > 0 implies bear_setup = 0 and bear_setup > 0
\* implies bull_setup = 0.
C1_MutualExclusive ==
    Done => \A i \in Bars :
        /\ df[i].bull_setup > 0 => df[i].bear_setup = 0
        /\ df[i].bear_setup > 0 => df[i].bull_setup = 0

\* a series with a bull Setup on some bar and a bear Setup on another
C1_Witness ==
    /\ Done
    /\ \E i, j \in Bars : df[i].bull_setup >= 2 /\ df[j].bear_setup >= 2

\* C2: bars 0..3 have both counts 0; from bar 4 on, bull_setup is the
\* previous bar's count plus 1 when close[i] < close[i-4] and 0 otherwise,
\* and bear_setup the same with close[i] > close[i-4].
C2_SetupRecurrence ==
    Done => \A i \in Bars :
        IF i < 4
        THEN df[i].bull_setup = 0 /\ df[i].bear_setup = 0
        ELSE /\ df[i].bull_setup =
                    IF df[i].CLOSE < df[i - 4].CLOSE
                    THEN df[i - 1].bull_setup + 1 ELSE 0
             /\ df[i].bear_setup =
                    IF df[i].CLOSE > df[i - 4].CLOSE
                    THEN df[i - 1].bear_setup + 1 ELSE 0

\* an unbroken run reads 1..9 at bars 4..12, and a later bar whose close
\* equals the close four bars back drops a positive count to 0
C2_Witness ==
    /\ Done
    /\ NRows(df) >= 13
    /\ \A i \in 4..12 : df[i].bull_setup = i - 3
    /\ \E i \in Bars :
        /\ i > 12
        /\ df[i].CLOSE = df[i - 4].CLOSE
        /\ df[i - 1].bull_setup > 0
        /\ df[i].bull_setup = 0

\* C3: both Countdown counters stay within 0..13 on every bar.
C3_CountdownCap ==
    Done => \A i \in Bars :
        /\ 0 <= df[i].BULL_CD /\ df[i].BULL_CD <= 13
        /\ 0 <= df[i].BEAR_CD /\ df[i].BEAR_CD <= 13

\* C4: on every bar i >= 2 where the opposing Setup count is at least 1,
\* the Countdown of this direction is 0.
C4_Cancellation ==
    Done => \A i \in Bars : i >= 2 =>
        /\ df[i].bear_setup >= 1 => df[i].BULL_CD = 0
        /\ df[i].bull_setup >= 1 => df[i].BEAR_CD = 0

\* the status the bands give to a defined age
Band(age, window) ==
    IF age = 0 THEN "Fresh"
    ELSE IF 0 < age /\ age <= window THEN "Active"
    ELSE "Expired"

\* C5: once an event of a stream has occurred (its age is defined), the
\* status is Fresh at age 0, Active for 0 < age <= window and Expired for
\* age > window, with window 4 for the Setup-9 streams and 8 for the
\* Countdown-13 streams.
C5_RecencyBands ==
    Done => \A i \in Bars :
        /\ df[i].td9_buy_age # NaN =>
                df[i].td9_buy_status = Band(df[i].td9_buy_age, 4)
        /\ df[i].td9_sell_age # NaN =>
                df[i].td9_sell_status = Band(df[i].td9_sell_age, 4)
        /\ df[i].td13_buy_age # NaN =>
                df[i].td13_buy_status = Band(df[i].td13_buy_age, 8)
        /\ df[i].td13_sell_age # NaN =>
                df[i].td13_sell_status = Band(df[i].td13_sell_age, 8)

\* a Setup-9 event followed by four Active bars and an Expired one, and a
\* Countdown-13 event followed by eight Active bars and an Expired one
C5_Witness ==
    /\ Done
    /\ \E i \in Bars :
        /\ i + 5 \in Bars
        /\ df[i].td9_buy_status = "Fresh"
        /\ \A k \in 1..4 : df[i + k].td9_buy_status = "Active"
        /\ df[i + 5].td9_buy_status = "Expired"
    /\ \E i \in Bars :
        /\ i + 9 \in Bars
        /\ df[i].td13_buy_status = "Fresh"
        /\ \A k \in 1..8 : df[i + k].td13_buy_status = "Active"
        /\ df[i + 9].td13_buy_status = "Expired"

\* no event of the stream at or before bar i
NoEventYet(flag, i) == \A j \in Bars : j <= i => ~df[j][flag]

\* C6: on every bar that precedes the first event of a stream, the stream's
\* status is none of Fresh, Active, Expired.
C6_UndefinedBeforeEvent ==
    Done => \A i \in Bars :
        /\ NoEventYet("TD9_BUY", i) => df[i].td9_buy_status \notin Statuses
        /\ NoEventYet("TD9_SELL", i) => df[i].td9_sell_status \notin Statuses
        /\ NoEventYet("TD13_BUY", i) => df[i].td13_buy_status \notin Statuses
        /\ NoEventYet("TD13_SELL", i) => df[i].td13_sell_status \notin Statuses

\* the price columns of a row
Bar(r) == [DATETIME |-> r.DATETIME, HIGH |-> r.HIGH, LOW |-> r.LOW,
           CLOSE |-> r.CLOSE]

\* C7: the engine's frame has exactly one row per input bar, labelled
\* 0..n-1 in timestamp order, and every input bar is the price part of as
\* many rows as it occurs in the input; construction and run keep this.
C7_LengthInvariant ==
    pc \in {"constructed", "done"} =>
        /\ NRows(df) = NRows(input)
        /\ DOMAIN df = 0..(NRows(input) - 1)
        /\ \A i, j \in Bars : i < j => df[i].DATETIME <= df[j].DATETIME
        /\ \A k \in DOMAIN input :
            Cardinality({i \in Bars : Bar(df[i]) = input[k]}) =
            Cardinality({j \in DOMAIN input : input[j] = input[k]})

\* a run on a series shorter than 4 bars that repeats a timestamp
C7_Witness ==
    /\ Done
    /\ NRows(input) \in 2..3
    /\ NRows(df) = NRows(input)
    /\ \E i, j \in DOMAIN input : i < j /\ input[i].DATETIME = input[j].DATETIME

\* C8: on a series of fewer than 12 bars every computed count, age and
\* oscillator value is the undefined marker and no status is Fresh, Active
\* or Expired.
C8_ShortSeriesUndefined ==
    (Done /\ NRows(df) < 12) => \A i \in Bars :
        /\ df[i].bull_setup = NaN /\ df[i].bear_setup = NaN
        /\ df[i].BULL_CD = NaN /\ df[i].BEAR_CD = NaN
        /\ df[i].td9_buy_age = NaN /\ df[i].td9_sell_age = NaN
        /\ df[i].td13_buy_age = NaN /\ df[i].td13_sell_age = NaN
        /\ df[i].DEMARKER = NaNQuot
        /\ df[i].td9_buy_status \notin Statuses
        /\ df[i].td9_sell_status \notin Statuses
        /\ df[i].td13_buy_status \notin Statuses
        /\ df[i].td13_sell_status \notin Statuses

\* C9: the engine is constructed and run only on a series whose timestamps
\* are strictly ascending (any other input is refused).
C9_RefusesUnorderedInput ==
    pc \in {"constructed", "done"} => StrictlyAscending(input)

\* C10: a bar whose Countdown is at least 13 while the oscillator is
\* undefined is not a Countdown-13 event: its TD13 age is not 0 and its
\* TD13 status is not Fresh.
C10_UnconfirmedNotRegistered ==
    Done => \A i \in Bars :
        /\ (df[i].BULL_CD >= 13 /\ df[i].DEMARKER = NaNQuot) =>
                df[i].td13_buy_age # 0 /\ df[i].td13_buy_status # "Fresh"
        /\ (df[i].BEAR_CD >= 13 /\ df[i].DEMARKER = NaNQuot) =>
                df[i].td13_sell_age # 0 /\ df[i].td13_sell_status # "Fresh"

\* C11: perfect_buy is true exactly on the bars where bull_setup is 9 and
\* high[i-8] exceeds high[i-6] or high[i-7]; perfect_sell exactly where
\* bear_setup is 9 and low[i-8] is below low[i-6] or low[i-7].  On every
\* bar whose count is not exactly 9 the flag is false.
C11_Perfection ==
    Done => \A i \in Bars :
        /\ df[i].perfect_buy <=>
            /\ df[i].bull_setup = 9
            /\ i >= 8
            /\ \/ df[i - 8].HIGH > df[i - 6].HIGH
               \/ df[i - 8].HIGH > df[i - 7].HIGH
        /\ df[i].perfect_sell <=>
            /\ df[i].bear_setup = 9
            /\ i >= 8
            /\ \/ df[i - 8].LOW < df[i - 6].LOW
               \/ df[i - 8].LOW < df[i - 7].LOW

\* a perfected buy Setup whose run goes on to 10, where the flag is off
C11_Witness ==
    /\ Done
    /\ \E i \in Bars :
        /\ i + 1 \in Bars
        /\ df[i].bull_setup = 9 /\ df[i].perfect_buy
        /\ df[i + 1].bull_setup = 10 /\ ~df[i + 1].perfect_buy

\* C12: a second call of run() on the same engine leaves every row and
\* every column exactly as the first call returned them.
C12_RerunIdentical ==
    [][(pc = "done" /\ pc' = "done") => df' = df]_vars

\* run() was called twice on a series long enough to carry counts
C12_Witness ==
    /\ Done
    /\ runs = 2
    /\ NRows(df) >= 13
    /\ \E i, j \in Bars : df[i].BULL_CD >= 3 /\ df[j].bull_setup >= 9

\* C13: a Countdown that is 13 on one bar is still 13 on the next bar
\* unless that bar carries an opposing Setup count (>= 1) that cancels it.
C13_HoldAtThirteen ==
    Done => \A i \in Bars : i >= 1 =>
        /\ (df[i - 1].BULL_CD = 13 /\ df[i].bear_setup = 0) => df[i].BULL_CD = 13
        /\ (df[i - 1].BEAR_CD = 13 /\ df[i].bull_setup = 0) => df[i].BEAR_CD = 13

\* the Countdown a bar gets when it starts again from 0
Restarted(inc) == IF inc THEN 1 ELSE 0

\* C14: on a bar where the same-direction Setup count is 9 and the
\* Countdown of the previous bar is below 13, the Countdown restarts (1 if
\* the bar meets the increment condition, else 0); on a bar whose
\* same-direction count is not 9 (and that no opposing Setup cancels) the
\* unfinished Countdown is not reset: it is the previous value plus the
\* bar's increment.
C14_Recycling ==
    Done => \A i \in Bars : i >= 2 =>
        /\ (df[i].bull_setup = 9 /\ df[i - 1].BULL_CD < 13) =>
                df[i].BULL_CD = Restarted(df[i].CLOSE <= df[i - 2].LOW)
        /\ (df[i].bull_setup # 9 /\ df[i].bear_setup = 0 /\ df[i - 1].BULL_CD < 13) =>
                df[i].BULL_CD =
                    df[i - 1].BULL_CD + Restarted(df[i].CLOSE <= df[i - 2].LOW)
        /\ (df[i].bear_setup = 9 /\ df[i - 1].BEAR_CD < 13) =>
                df[i].BEAR_CD = Restarted(df[i].CLOSE >= df[i - 2].HIGH)
        /\ (df[i].bear_setup # 9 /\ df[i].bull_setup = 0 /\ df[i - 1].BEAR_CD < 13) =>
                df[i].BEAR_CD =
                    df[i - 1].BEAR_CD + Restarted(df[i].CLOSE >= df[i - 2].HIGH)

\* C15: the TD13 event flag is raised, and the TD13 age is 0, only on a bar
\* whose Countdown is exactly 13 while the previous bar's was below 13.
C15_EventOnFirstThirteen ==
    Done => \A i \in Bars :
        /\ (df[i].TD13_BUY \/ df[i].td13_buy_age = 0) =>
                /\ df[i].BULL_CD = 13
                /\ i >= 1 => df[i - 1].BULL_CD < 13
        /\ (df[i].TD13_SELL \/ df[i].td13_sell_age = 0) =>
                /\ df[i].BEAR_CD = 13
                /\ i >= 1 => df[i - 1].BEAR_CD < 13

\* bars since the latest event at or before bar i; undefined without one
AgeSince(events, i) ==
    LET past == {j \in events : j <= i}
    IN  IF past = {} THEN NaN
        ELSE i - (CHOOSE j \in past : \A k \in past : k <= j)

\* the age column is the distance to the latest event, 0 on an event bar
\* and the previous age plus 1 on any other bar after the first event
AgeTracks(events, ageCol) ==
    \A i \in Bars :
        /\ df[i][ageCol] = AgeSince(events, i)
        /\ i \in events => df[i][ageCol] = 0
        /\ (i \notin events /\ i >= 1 /\ df[i - 1][ageCol] # NaN) =>
                df[i][ageCol] = df[i - 1][ageCol] + 1

\* C16: on every bar the age of a stream is the bar's index minus the
\* greatest index at or before it where the stream's event flag is true
\* (bull_setup = 9 for TD9 buy, bear_setup = 9 for TD9 sell, the TD13 flags
\* for the TD13 streams), and undefined when there is no such index.
C16_AgeIsDistanceToLastEvent ==
    Done =>
        /\ AgeTracks({j \in Bars : df[j].bull_setup = 9}, "td9_buy_age")
        /\ AgeTracks({j \in Bars : df[j].bear_setup = 9}, "td9_sell_age")
        /\ AgeTracks({j \in Bars : df[j].TD13_BUY}, "td13_buy_age")
        /\ AgeTracks({j \in Bars : df[j].TD13_SELL}, "td13_sell_age")

\* a Setup-9 event with an undefined age before it and age 3 three bars on
C16_Witness ==
    /\ Done
    /\ \E i \in Bars :
        /\ i >= 1 /\ i + 3 \in Bars
        /\ df[i].bull_setup = 9
        /\ df[i - 1].td9_buy_age = NaN
        /\ df[i].td9_buy_age = 0
        /\ df[i + 3].td9_buy_age = 3

\* the price columns of the first k rows
PricePrefix(d, k) == [i \in 0..(k - 1) |-> Bar(d[i])]

\* C17: for every k up to the length of the series, the records run
\* produced for bars 0..k-1 are the records a run on the first k bars alone
\* produces (no computed field of a bar depends on a later bar).  Stated
\* of the first run of an engine; a later run returns the same frame (C12).
C17_NoReadAhead ==
    (Done /\ runs = 1) => \A k \in 0..NRows(df) :
        RunEngine(PricePrefix(df, k)) = [i \in 0..(k - 1) |-> df[i]]

\* a run whose series holds a completed Setup, a counted Countdown and a
\* defined oscillator value before its last bars
C17_Witness ==
    /\ Done
    /\ runs = 1
    /\ NRows(df) >= 20
    /\ \E i \in Bars :
        /\ i + 3 \in Bars
        /\ df[i].bull_setup = 9
        /\ df[i].DEMARKER # NaNQuot
        /\ df[i + 3].td9_buy_age = 3

\* upward and downward pressure of bar j >= 1
UpPressure(j) == Max(df[j].HIGH - df[j - 1].HIGH, 0)

DownPressure(j) == Max(df[j - 1].LOW - df[j].LOW, 0)

\* sums of the pressures over the 14 bars ending at bar i >= 14
UpSum(i) == SumOver([j \in (i - 13)..i |-> UpPressure(j)], i - 13, i)

DownSum(i) == SumOver([j \in (i - 13)..i |-> DownPressure(j)], i - 13, i)

\* C18: the oscillator is undefined on every bar i < 14 and on every bar
\* whose trailing 14-bar sums of up and down pressure are both zero; on any
\* other bar it is sum(up) / (sum(up) + sum(down)), a value in [0, 1].
C18_Oscillator ==
    Done => \A i \in Bars :
        IF i < 14 THEN df[i].DEMARKER = NaNQuot
        ELSE IF UpSum(i) + DownSum(i) = 0 THEN df[i].DEMARKER = NaNQuot
        ELSE /\ df[i].DEMARKER = <<UpSum(i), UpSum(i) + DownSum(i)>>
             /\ 0 <= df[i].DEMARKER[1]
             /\ df[i].DEMARKER[1] <= df[i].DEMARKER[2]
             /\ df[i].DEMARKER[2] > 0

\* a series with a bar past the period whose pressures are all zero and a
\* bar whose oscillator lies strictly between 0 and 1
C18_Witness ==
    /\ Done
    /\ \E i, j \in Bars :
        /\ i >= 14
        /\ df[i].DEMARKER = NaNQuot
        /\ df[j].DEMARKER # NaNQuot
        /\ 0 < df[j].DEMARKER[1]
        /\ df[j].DEMARKER[1] < df[j].DEMARKER[2]

\* C19: bars 0 and 1 have both counters 0.  On a bar i >= 2 with
\* bull_setup < 9, BULL_CD grows over the previous bar by 1 when
\* close[i] <= low[i-2] and by 0 otherwise, whatever the bear Setup count;
\* with bull_setup >= 9, BULL_CD is 1 when close[i] <= low[i-2] and 0
\* otherwise.  BEAR_CD likewise with bear_setup and close[i] >= high[i-2].
C19_CountdownStep ==
    Done => \A i \in Bars :
        IF i < 2
        THEN df[i].BULL_CD = 0 /\ df[i].BEAR_CD = 0
        ELSE /\ df[i].BULL_CD =
                    (IF df[i].bull_setup < 9 THEN df[i - 1].BULL_CD ELSE 0)
                    + Restarted(df[i].CLOSE <= df[i - 2].LOW)
             /\ df[i].BEAR_CD =
                    (IF df[i].bear_setup < 9 THEN df[i - 1].BEAR_CD ELSE 0)
                    + Restarted(df[i].CLOSE >= df[i - 2].HIGH)

\* a bull Countdown that counts on a bar with an active bear Setup, and is
\* later reset on a bar whose bull Setup count is 10
C19_Witness ==
    /\ Done
    /\ \E j \in Bars :
        /\ j >= 2
        /\ df[j].bear_setup >= 1
        /\ df[j].BULL_CD = df[j - 1].BULL_CD + 1
    /\ \E i \in Bars :
        /\ i >= 2
        /\ df[i].bull_setup = 10
        /\ df[i - 1].BULL_CD = 1
        /\ df[i].BULL_CD = 1

\* C20: every result the scanner stores has a classification other than
\* Neutral, leadership Leader and a Confidence from 1 to 6, the scale of the
\* score shown in its message line.
C20_StoredResults ==
    \A k \in DOMAIN results :
        /\ results[k].Classification # "Neutral"
        /\ results[k].Leadership = "Leader"
        /\ 1 <= results[k].Confidence
        /\ results[k].Confidence <= 6
        /\ MessageLine(results[k]).Score = results[k].Confidence
        /\ MessageLine(results[k]).OutOf = 6

\* two stored results, one with the lowest and one with the highest score
C20_Witness ==
    /\ Len(results) = 2
    /\ results[1].Confidence = 1
    /\ results[2].Confidence = 6

====
